---- MODULE Spec2Model ----
(***************************************************************************)
(* Model of chrome-extension/content.js: the paragraph reader              *)
(* (class ReadParagraphTTS), the speech engine it drives                   *)
(* (window.speechSynthesis), its delay timers, the table of contents       *)
(* (class TableOfContents), dark mode (class DarkModeFunctionality) and    *)
(* the pure functions of the two classes.                                  *)
(*                                                                         *)
(* The components share one state.  Spec and SpecSeq follow the reader and *)
(* hold the state of the other components at its initial value; SpecToc    *)
(* follows the table of contents, SpecDark dark mode, SpecCollect,         *)
(* SpecChunks and SpecIndent apply collectHeadings, the chunking of speak  *)
(* and calcIndent to inputs drawn from bounded sets.                       *)
(***************************************************************************)
EXTENDS Integers, Sequences, FiniteSets, TLC

\* ------------------------------------------------------------------------
\* Bounds of the model
\* ------------------------------------------------------------------------
\* largest number of non-empty <p> elements in the document
MaxParagraphs == 2
\* largest number of speak() calls in one behaviour
MaxCalls == 2
\* how far past paragraphs.length the cursor is followed
MaxOverrun == 1

\* largest number of heading-like elements in the page
MaxHeadings == 3
\* largest number of characters of a text chunked on its own
MaxTextLen == 3
\* largest font size, in px
MaxFont == 6

\* texts of paragraphs: one, two and three chunks
SampleTexts == { <<"a", ".">>, <<"a", ".", "b">>, <<"a", "?", "b", "!", "c">> }

\* the documents of the full model: n paragraphs, the first of two chunks,
\* the others of one chunk
SampleDocument(n) ==
    [i \in 1 .. n |-> IF i = 1 THEN <<"a", ".", "b">> ELSE <<"a", ".">>]
\* values typed into the delay input
DelayInputs == { 0, 5 }

\* ------------------------------------------------------------------------
\* State
\* ------------------------------------------------------------------------
VARIABLES
    paragraphs,             \* this.paragraphs: the texts, in document order
    hasSpeechSynthesis,     \* 'speechSynthesis' in window
    currentParagraphIdx,    \* this.currentParagraphIdx
    delay,                  \* this.delay
    isContinuous,           \* this.isContinuous
    isRandom,               \* this.isRandom
    highlighted,            \* indices of paragraphs carrying ext-tts-highlight
    calls,                  \* the closures of speak(): one record per call
    utteranceQueue,         \* speechSynthesis queue, head is being spoken
    cancelled,              \* utterances removed by cancel(), event undelivered
    timers,                 \* pending setTimeout(() => this.play()) timers
    raised,                 \* the last handler ended with an uncaught exception
    lastFailed,             \* the last handler was the onerror of an utterance
    justEnded,              \* the call whose onEnd the last handler ran, else 0
    stopRun,                \* number of stopAll calls in a row (0..2)
    controls,               \* the three buttons and the delay input are in the page
    elements,               \* the heading-like elements, in document order
    tocInstance,            \* window.tocInstance: headings, activeId, idCounter
    domLog,                 \* what the last TOC handler did to the page, in order
    hovered,                \* a mouseover or mouseout handler of a link has run
    darkModeInstance,       \* window.darkModeInstance: isDark, styleEl
    darkPage,               \* the page: is the style in the head, the button text
    localStorage,           \* the item ext_dark_mode, and whether getItem, setItem throw
    toggled,                \* the page and isDark before each of the last two toggles
    speakText,              \* the argument text of a call of speak
    chunks,                 \* the chunks that speak made of it, << >> before
    calcArgs,               \* minFont, maxFont, a level and two font sizes
    indent                  \* calcIndent of the two font sizes, << >> before

\* the state of the table of contents and of the page it indexes
tocVars == << elements, tocInstance, domLog, hovered >>

\* the state of dark mode, of the page it styles and of the preference store
darkVars == << darkModeInstance, darkPage, localStorage, toggled >>

\* the arguments and results of the functions applied on their own
fnVars == << speakText, chunks, calcArgs, indent >>

\* the state of the components other than the reader
otherVars == << tocVars, darkVars, fnVars >>

vars == << paragraphs, hasSpeechSynthesis, currentParagraphIdx, delay,
           isContinuous, isRandom, highlighted, calls, utteranceQueue,
           cancelled, timers, raised, lastFailed, justEnded, stopRun,
           controls, otherVars >>

\* ------------------------------------------------------------------------
\* speak(): chunking, text.match(/[^.!?]+[.!?]+|[^.!?]+$/g) || [text]
\* ------------------------------------------------------------------------
IsTerminal(c) == c \in { ".", "!", "?" }

RECURSIVE RunEnd(_, _, _)
\* first position >= i of text whose character is not of the class
\* (terminal or not) given by term; Len(text)+1 when the run reaches the end
RunEnd(text, i, term) ==
    IF i > Len(text) \/ IsTerminal(text[i]) # term
    THEN i
    ELSE RunEnd(text, i + 1, term)

RECURSIVE MatchAll(_, _)
\* the successive matches of the regular expression from position pos
MatchAll(text, pos) ==
    IF pos > Len(text) THEN << >>
    ELSE LET a == RunEnd(text, pos, FALSE)
             b == RunEnd(text, a, TRUE)
         IN  IF a = pos THEN MatchAll(text, pos + 1)
             ELSE IF b > a THEN << SubSeq(text, pos, b - 1) >> \o MatchAll(text, b)
             ELSE IF a = Len(text) + 1 THEN << SubSeq(text, pos, Len(text)) >>
             ELSE MatchAll(text, pos + 1)

Chunks(text) ==
    LET m == MatchAll(text, 1)
    IN  IF m = << >> THEN << text >> ELSE m

\* ------------------------------------------------------------------------
\* The controller's state as one record, and the methods as functions on it
\* ------------------------------------------------------------------------
State ==
    [ idx |-> currentParagraphIdx, delay |-> delay, cont |-> isContinuous,
      rand |-> isRandom, hl |-> highlighted, calls |-> calls,
      queue |-> utteranceQueue, cancelled |-> cancelled, timers |-> timers,
      raised |-> raised, controls |-> controls ]

InRange(i) == i \in 0 .. (Len(paragraphs) - 1)

\* paragraphs[i].classList.add(...): TypeError when paragraphs[i] is undefined
highlightParagraph(s, i) ==
    IF InRange(i) THEN [s EXCEPT !.hl = @ \cup {i}]
    ELSE [s EXCEPT !.raised = TRUE]

\* paragraphs[i].classList.remove(...)
clearHighlight(s, i) ==
    IF InRange(i) THEN [s EXCEPT !.hl = @ \ {i}]
    ELSE [s EXCEPT !.raised = TRUE]

\* speechSynthesis.cancel(): every utterance leaves the queue; whether the
\* engine then fires an error event on a removed utterance differs between
\* engines, so both outcomes stay possible (CancelledError, CancelledDrop)
stopSpeech(s) ==
    IF hasSpeechSynthesis
    THEN [s EXCEPT !.queue = << >>,
                   !.cancelled = @ \cup { s.queue[k] : k \in 1 .. Len(s.queue) }]
    ELSE s

\* an onEnd callback that clears the highlight at the cursor
onEndAtCursor(s, id) ==
    LET s1 == [s EXCEPT !.calls[id].ended = @ + 1]
        s2 == clearHighlight(s1, s1.idx)
    IN  IF s2.cont THEN [s2 EXCEPT !.timers = @ + 1] ELSE s2

\* an onEnd callback that schedules the next play whatever the flag says
onEndSchedule(s, id) ==
    LET s1 == [s EXCEPT !.calls[id].ended = @ + 1]
        s2 == clearHighlight(s1, s1.calls[id].para)
    IN  [s2 EXCEPT !.timers = @ + 1]

\* the onEnd callback that play() hands to speak()
onEnd(s, id) ==
    LET s1 == [s EXCEPT !.calls[id].ended = @ + 1]
        s2 == clearHighlight(s1, s1.calls[id].para)
    IN  IF s2.cont THEN [s2 EXCEPT !.timers = @ + 1] ELSE s2

\* a speakNext that hands two chunks to the engine at once
speakNextEager(s, id) ==
    LET c == s.calls[id]
        k == Len(Chunks(paragraphs[c.para + 1]))
    IN  IF c.index >= k
        THEN onEnd(s, id)
        ELSE IF c.index + 1 >= k
        THEN [s EXCEPT !.calls[id].index = @ + 1,
                       !.calls[id].submitted = Append(@, c.index),
                       !.queue = Append(@, [call |-> id, chunk |-> c.index])]
        ELSE [s EXCEPT !.calls[id].index = @ + 2,
                       !.calls[id].submitted = @ \o << c.index, c.index + 1 >>,
                       !.queue = @ \o << [call |-> id, chunk |-> c.index],
                                         [call |-> id, chunk |-> c.index + 1] >>]

\* the closure speakNext of the call id
speakNext(s, id) ==
    LET c == s.calls[id]
    IN  IF c.index >= Len(Chunks(paragraphs[c.para + 1]))
        THEN onEnd(s, id)
        ELSE [s EXCEPT !.calls[id].index = @ + 1,
                       !.calls[id].submitted = Append(@, c.index),
                       !.queue = Append(@, [call |-> id, chunk |-> c.index])]

speak(s, para) ==
    IF ~hasSpeechSynthesis THEN s
    ELSE LET id == Len(s.calls) + 1
             s1 == [s EXCEPT !.calls = Append(@,
                       [para |-> para, index |-> 0, ended |-> 0,
                        submitted |-> << >>, delivered |-> 0])]
         IN  speakNext(s1, id)

\* a play that highlights and speaks the paragraph it has just selected
playSelected(s, rnd) ==
    LET nextParagraphIdx == IF s.rand THEN rnd ELSE s.idx + 1
        s1 == [s EXCEPT !.idx = nextParagraphIdx]
        s2 == highlightParagraph(s1, nextParagraphIdx)
    IN  IF s2.raised THEN s2 ELSE speak(s2, nextParagraphIdx)

play(s, rnd) ==
    LET nextParagraphIdx == IF s.rand THEN rnd ELSE s.idx + 1
        pastParagraphIdx == s.idx
        s1 == [s EXCEPT !.idx = nextParagraphIdx]
        s2 == highlightParagraph(s1, pastParagraphIdx)
    IN  IF s2.raised THEN s2 ELSE speak(s2, pastParagraphIdx)

\* a stopAll that flips the continuous flag instead of clearing it
stopAllToggle(s) ==
    LET s1 == [s EXCEPT !.cont = ~@]
        s2 == stopSpeech(s1)
    IN  clearHighlight(s2, s2.idx)

stopAll(s) ==
    LET s1 == [s EXCEPT !.cont = FALSE]
        s2 == stopSpeech(s1)
    IN  clearHighlight(s2, s2.idx)

\* destroy(): stopAll(), then the three buttons and the delay input leave
\* the page; a TypeError of stopAll() ends destroy() before it removes them
destroy(s) ==
    LET s1 == stopAll(s)
    IN  IF s1.raised THEN s1 ELSE [s1 EXCEPT !.controls = FALSE]

\* u.onend of the utterance u
onend(s, u) ==
    speakNext([s EXCEPT !.calls[u.call].delivered = @ + 1], u.call)

\* an onerror handler that only logs
onerrorAbort(s, u) ==
    [s EXCEPT !.calls[u.call].delivered = @ + 1]

\* u.onerror of the utterance u: console.warn(e); speakNext()
onerror(s, u) ==
    speakNext([s EXCEPT !.calls[u.call].delivered = @ + 1], u.call)

\* ------------------------------------------------------------------------
\* TableOfContents: the elements of the page and their ids
\* ------------------------------------------------------------------------
\* An element is [tag, id, ancestors, pos]: ancestors are its parentElement
\* and the elements above it, up to and without the article, each with its
\* tag and its open attribute; pos is the number of paragraphs before it.
\* An id is the pair of its text before a trailing number and that number:
\* 'toc-auto-' + 3 is <<"toc-auto-", 3>>, 'intro' is <<"intro", 0>>.
NoId == << "", 0 >>
\* the value null of activeId
Null == << "", -1 >>
\* 'toc-auto-' + n
AutoId(n) == << "toc-auto-", n >>

HeadingTags == { "H1", "H2", "H3", "H4", "H5", "H6" }

RECURSIVE InOrder(_)
\* the numbers of S in increasing order
InOrder(S) ==
    IF S = {} THEN << >>
    ELSE LET least == CHOOSE i \in S : \A j \in S : i <= j
         IN  << least >> \o InOrder(S \ { least })

\* querySelectorAll('h1, h2, h3, h4, h5, h6'), as indices of els
standard(els) ==
    InOrder({ i \in DOMAIN els : els[i].tag \in HeadingTags })

\* querySelectorAll('details > summary'), as indices of els
custom(els) ==
    InOrder({ i \in DOMAIN els :
                /\ els[i].tag = "SUMMARY"
                /\ els[i].ancestors # << >>
                /\ els[i].ancestors[1].tag = "DETAILS" })

\* a heading entry before render(): no link
NoLink == [exists |-> FALSE, fontWeight |-> "", background |-> ""]

\* the TableOfContents constructor, before init()
NewToc == [headings |-> << >>, activeId |-> Null, idCounter |-> 0]

\* used.has(id) that never finds the id
hasNever(used, id) == FALSE

\* used.has(id)
has(used, id) == id \in used

RECURSIVE collect(_, _, _, _, _)
\* the map and filter of collectHeadings over all, from its k-th element on
collect(t, els, all, k, used) ==
    IF k > Len(all) THEN [toc |-> t, elements |-> els]
    ELSE LET i == all[k]
             counter == IF els[i].id = NoId THEN t.idCounter + 1 ELSE t.idCounter
             id == IF els[i].id = NoId THEN AutoId(counter) ELSE els[i].id
             els2 == [els EXCEPT ![i].id = id]
             t2 == [t EXCEPT !.idCounter = counter]
         IN  IF has(used, id)
             THEN collect(t2, els2, all, k + 1, used)
             ELSE collect([t2 EXCEPT !.headings =
                              Append(@, [el |-> i, id |-> id, link |-> NoLink])],
                          els2, all, k + 1, used \cup { id })

\* collectHeadings(): the entries and the ids written to the elements
collectHeadings(t, els) ==
    collect([t EXCEPT !.headings = << >>], els,
            standard(els) \o custom(els), 1, {})

\* render(): every entry gets its link, weight 400, no background set
render(t) ==
    [t EXCEPT !.headings =
        [k \in DOMAIN @ |->
            [@[k] EXCEPT !.link = [exists |-> TRUE, fontWeight |-> "400",
                                   background |-> ""]]]]

\* new TableOfContents(): init() over the page
init(els) ==
    LET c == collectHeadings(NewToc, els)
    IN  IF Len(c.toc.headings) = 0 THEN c
        ELSE [c EXCEPT !.toc = render(@)]

\* setActive that leaves the other links as they are
setActiveOnly(t, id) ==
    [t EXCEPT !.activeId = id,
              !.headings =
                 [k \in DOMAIN @ |->
                    IF ~@[k].link.exists THEN @[k]
                    ELSE IF @[k].id = id
                         THEN [@[k] EXCEPT !.link.fontWeight = "700",
                                           !.link.background = "tint"]
                         ELSE @[k]]]

\* setActive(id)
setActive(t, id) ==
    [t EXCEPT !.activeId = id,
              !.headings =
                 [k \in DOMAIN @ |->
                    IF ~@[k].link.exists THEN @[k]
                    ELSE IF @[k].id = id
                         THEN [@[k] EXCEPT !.link.fontWeight = "700",
                                           !.link.background = "tint"]
                         ELSE [@[k] EXCEPT !.link.fontWeight = "400",
                                           !.link.background = "transparent"]]]

RECURSIVE observe(_, _, _, _)
\* the IntersectionObserver callback over entries, from the k-th on
observe(t, els, entries, k) ==
    IF k > Len(entries) THEN t
    ELSE LET entry == entries[k]
             id == els[entry.target].id
         IN  IF (entry.isIntersecting \/ entry.intersectionRatio > 0)
                  /\ t.activeId # id
             THEN observe(setActive(t, id), els, entries, k + 1)
             ELSE observe(t, els, entries, k + 1)

\* number of closed DETAILS among the ancestors
closedDetails(ancestors) ==
    Cardinality({ j \in DOMAIN ancestors :
                    ancestors[j].tag = "DETAILS" /\ ~ancestors[j].open })

\* openDetailsChain that stops at the first ancestor that is no DETAILS
openDetailsChainWhile(ancestors) ==
    [j \in DOMAIN ancestors |->
        IF \A i \in 1 .. j : ancestors[i].tag = "DETAILS"
        THEN [ancestors[j] EXCEPT !.open = TRUE]
        ELSE ancestors[j]]

\* openDetailsChain(el.parentElement): the ancestors afterwards
openDetailsChain(ancestors) ==
    [j \in DOMAIN ancestors |->
        IF ancestors[j].tag = "DETAILS"
        THEN [ancestors[j] EXCEPT !.open = TRUE]
        ELSE ancestors[j]]

\* scrollToHeading(h) for the k-th entry, the part before the reader is
\* moved: the panel, the page, and the calls made in order, each with the
\* number of closed DETAILS above the heading when it is made
scrollToHeadingPanel(t, els, k) ==
    LET h == t.headings[k]
        chain == openDetailsChain(els[h.el].ancestors)
    IN  [toc |-> setActive(t, h.id),
         elements |-> [els EXCEPT ![h.el].ancestors = chain],
         log |-> << [step |-> "openDetailsChain",
                     closed |-> closedDetails(els[h.el].ancestors)],
                    [step |-> "scrollIntoView", closed |-> closedDetails(chain)],
                    [step |-> "setActive", closed |-> closedDetails(chain)],
                    [step |-> "animate", closed |-> closedDetails(chain)] >>]

\* TableOfContents.destroy(): the observer is disconnected and the panel,
\* with the links, is removed; the entries go, activeId and idCounter stay
destroyToc(t) ==
    [t EXCEPT !.headings = << >>]

\* ------------------------------------------------------------------------
\* DarkModeFunctionality, as operations on a record of its fields, the
\* page and the store.  The button texts are the words of the two labels.
\* ------------------------------------------------------------------------
\* localStorage.getItem of an item that is not stored: null
NoItem == "null"

DarkState ==
    [isDark |-> darkModeInstance.isDark, styleEl |-> darkModeInstance.styleEl,
     styleInHead |-> darkPage.styleInHead, buttonText |-> darkPage.buttonText,
     ext_dark_mode |-> localStorage.ext_dark_mode,
     getItemThrows |-> localStorage.getItemThrows,
     setItemThrows |-> localStorage.setItemThrows,
     raised |-> FALSE]

\* the text of a button that is not in the document: this.button is null
NoButton == "null"

\* applyDark(): the label is set if (btn)
applyDark(d) ==
    [d EXCEPT !.styleEl = TRUE,
              !.styleInHead = TRUE,
              !.buttonText = IF @ = NoButton THEN @ ELSE "Light"]

\* removeDark that leaves the style element in the head
removeDarkLabel(d) ==
    [d EXCEPT !.buttonText = IF @ = NoButton THEN @ ELSE "Dark"]

\* removeDark(): the label is set if (btn)
removeDark(d) ==
    [d EXCEPT !.styleInHead = IF d.styleEl /\ @ THEN FALSE ELSE @,
              !.buttonText = IF @ = NoButton THEN @ ELSE "Dark"]

\* DarkModeFunctionality.destroy(): the button and the style element leave
\* the document, styleEl is null, isDark stays
destroyDark(d) ==
    [d EXCEPT !.buttonText = NoButton,
              !.styleInHead = IF d.styleEl /\ @ THEN FALSE ELSE @,
              !.styleEl = FALSE]

\* localStorage.setItem('ext_dark_mode', value)
setItem(d, value) ==
    IF d.setItemThrows THEN [d EXCEPT !.raised = TRUE]
    ELSE [d EXCEPT !.ext_dark_mode = value]

\* try { ... } catch (_) {}: d is the state the block ended in
caught(d) == [d EXCEPT !.raised = FALSE]

\* toggle without the try around setItem
toggleUncaught(d) ==
    LET flipped == [d EXCEPT !.isDark = ~@]
        styled == IF flipped.isDark THEN applyDark(flipped) ELSE removeDark(flipped)
    IN  setItem(styled, IF styled.isDark THEN "1" ELSE "0")

\* toggle()
toggle(d) ==
    LET flipped == [d EXCEPT !.isDark = ~@]
        styled == IF flipped.isDark THEN applyDark(flipped) ELSE removeDark(flipped)
    IN  caught(setItem(styled, IF styled.isDark THEN "1" ELSE "0"))

\* loadPreference()
loadPreference(d) ==
    IF d.getItemThrows THEN caught([d EXCEPT !.raised = TRUE])
    ELSE IF d.ext_dark_mode = "1" /\ ~d.isDark
         THEN caught(applyDark([d EXCEPT !.isDark = TRUE]))
         ELSE caught(d)

\* new DarkModeFunctionality() on a freshly loaded page, over the store
newDarkMode(store) ==
    loadPreference([isDark |-> FALSE, styleEl |-> FALSE,
                    styleInHead |-> FALSE, buttonText |-> "Dark",
                    ext_dark_mode |-> store.ext_dark_mode,
                    getItemThrows |-> store.getItemThrows,
                    setItemThrows |-> store.setItemThrows,
                    raised |-> FALSE])

\* what toggling twice is to restore
Appearance(d) == << d.isDark, d.styleInHead, d.buttonText >>

\* a store that works and holds no preference
NoStore ==
    [ext_dark_mode |-> NoItem, getItemThrows |-> FALSE, setItemThrows |-> FALSE]

\* dark mode constructed over one of the stores
InitDark(stores) ==
    /\ localStorage \in stores
    /\ darkModeInstance = [isDark |-> newDarkMode(localStorage).isDark,
                           styleEl |-> newDarkMode(localStorage).styleEl]
    /\ darkPage = [styleInHead |-> newDarkMode(localStorage).styleInHead,
                   buttonText |-> newDarkMode(localStorage).buttonText]
    /\ toggled = << >>

\* ------------------------------------------------------------------------
\* TableOfContents.calcIndent, over whole numbers of px.  The code computes
\* in doubles: ratio = (f - min) / (max - min), inverted = 1 - ratio,
\* base = inverted * 24, Math.round(base + levelAdj).  The error of the
\* doubles decides the result only when the exact sum lies halfway between
\* two whole numbers and the ratio is no binary fraction, that is when the
\* ratio is c / 48 for an odd c; these cases are followed operation by
\* operation, every other case is rounded exactly.
\* ------------------------------------------------------------------------
\* Math.round of the fraction num / den, den > 0: the nearest whole number,
\* halves upwards
round(num, den) == (2 * num + den) \div (2 * den)

RECURSIVE Exponent(_, _)
\* the binary exponent of the double num / den, num > 0 and den > 0:
\* the e with 2^e <= num / den < 2^(e + 1)
Exponent(num, den) ==
    IF num >= 2 * den THEN Exponent(num, 2 * den) + 1
    ELSE IF num < den THEN Exponent(2 * num, den) - 1
    ELSE 0

RECURSIVE IsPowerOfTwo(_, _)
\* num / den is a power of two
IsPowerOfTwo(num, den) ==
    IF num >= 2 * den THEN IsPowerOfTwo(num, 2 * den)
    ELSE IF num < den THEN IsPowerOfTwo(2 * num, den)
    ELSE num = den

\* the least exponent of a double that calcIndent meets for an odd c: that
\* of 1 / 48, and one below that of 1 / 16.  Errors are counted in the unit
\* 2^(MinExponent - 52) / 3, a third of the spacing of the doubles there.
MinExponent == 0 - 6

\* The result of one floating-point operation whose exact result is
\* numer / 48 + n units, numer # 0: the nearest double, the even one of two
\* equally near, given as its distance from numer / 48 in units.  The
\* doubles of exponent e are spaced G = 3 * 2^(e - MinExponent) units;
\* numer / 48 is numer * 2^54 units, which leaves the remainder
\* 2^(e - MinExponent + 1) * ((numer * 2^(47 - e)) % 3) modulo 2 * G.
roundToDouble(numer, n) ==
    LET mag == IF numer < 0 THEN 0 - numer ELSE numer
        e0 == Exponent(mag, 48)
        e == IF IsPowerOfTwo(mag, 48) /\ n # 0 /\ ((n < 0) = (numer > 0))
             THEN e0 - 1 ELSE e0
        G == 3 * 2^(e - MinExponent)
        rem == 2^(e - MinExponent + 1)
                  * (((numer % 3) * (IF (47 - e) % 2 = 0 THEN 1 ELSE 2)) % 3)
        T == (rem + n) % (2 * G)
    IN  IF 2 * T <= G THEN n - T
        ELSE IF 2 * T < 3 * G THEN n - T + G
        ELSE n - T + 2 * G

\* calcIndent with the ratio not inverted
calcIndentRatio(c, fontSizePx, level) ==
    IF c.maxFont = c.minFont THEN (level - 1) * 12
    ELSE round((fontSizePx - c.minFont) * 24
                  + (level - 1) * 8 * (c.maxFont - c.minFont),
               c.maxFont - c.minFont)

\* calcIndent(fontSizePx, level) of a table of contents with c.minFont and
\* c.maxFont: round((1 - ratio) * 24 + (level - 1) * 8)
calcIndent(c, fontSizePx, level) ==
    IF c.maxFont = c.minFont THEN (level - 1) * 12
    ELSE LET span == c.maxFont - c.minFont
             levelAdj == (level - 1) * 8
             exact == round((c.maxFont - fontSizePx) * 24 + levelAdj * span, span)
             ratio48 == (48 * (fontSizePx - c.minFont)) \div span
         IN  IF (48 * (fontSizePx - c.minFont)) % span = 0 /\ ratio48 % 2 = 1
             THEN LET ratio == roundToDouble(ratio48, 0)
                      inverted == roundToDouble(48 - ratio48, 0 - ratio)
                      base == 8 * roundToDouble(3 * (48 - ratio48), 3 * inverted)
                      sum == roundToDouble(24 * (48 - ratio48) + 48 * levelAdj, base)
                  IN  IF sum >= 0 THEN exact ELSE exact - 1
             ELSE exact

\* no function has been applied and none will be
FnIdle ==
    /\ speakText = << >>
    /\ chunks = << >>
    /\ calcArgs = [minFont |-> 14, maxFont |-> 32, level |-> 1,
                   fontSizePx |-> << 0, 0 >>]
    /\ indent = << >>

\* ------------------------------------------------------------------------
\* Initial state: the constructor
\* ------------------------------------------------------------------------
InitWith(documents) ==
    /\ paragraphs \in documents
    /\ hasSpeechSynthesis \in BOOLEAN
    /\ currentParagraphIdx = 0
    /\ delay = 20
    /\ isContinuous = TRUE
    /\ isRandom = FALSE
    /\ highlighted = {}
    /\ calls = << >>
    /\ utteranceQueue = << >>
    /\ cancelled = {}
    /\ timers = 0
    /\ raised = FALSE
    /\ lastFailed = FALSE
    /\ justEnded = 0
    /\ stopRun = 0
    /\ controls = TRUE

\* the table of contents constructed over one of the pages
InitToc(pages) ==
    /\ \E els \in pages :
          /\ elements = init(els).elements
          /\ tocInstance = init(els).toc
    /\ domLog = << >>
    /\ hovered = FALSE

\* the components that a specification does not follow: a page without
\* heading-like elements, no preference stored, no function applied
OthersIdle ==
    /\ InitToc({ << >> })
    /\ InitDark({ NoStore })
    /\ FnIdle

\* the page of the reader's documents: one heading, after the first
\* paragraph of a document of n paragraphs, if it has one
ReaderPage(n) ==
    << [tag |-> "H2", id |-> NoId, ancestors |-> << >>,
        pos |-> IF n >= 1 THEN 1 ELSE 0] >>

Init ==
    /\ InitWith({ SampleDocument(n) : n \in 0 .. MaxParagraphs })
    /\ InitToc({ ReaderPage(Len(paragraphs)) })
    /\ InitDark({ NoStore })
    /\ FnIdle

\* the reader after a handler: r is the record the handler produced
CommitReader(r, op) ==
    /\ currentParagraphIdx' = r.idx
    /\ delay' = r.delay
    /\ isContinuous' = r.cont
    /\ isRandom' = r.rand
    /\ highlighted' = r.hl
    /\ calls' = r.calls
    /\ utteranceQueue' = r.queue
    /\ cancelled' = r.cancelled
    /\ timers' = r.timers
    /\ raised' = r.raised
    /\ controls' = r.controls
    /\ lastFailed' = (op \in { "error", "cancelError" })
    /\ justEnded' =
          LET done == { id \in 1 .. Len(calls) : r.calls[id].ended > calls[id].ended }
          IN  IF done = {} THEN 0 ELSE CHOOSE id \in done : TRUE
    /\ stopRun' = IF op = "stop" THEN (IF stopRun < 2 THEN stopRun + 1 ELSE 2) ELSE 0
    /\ UNCHANGED << paragraphs, hasSpeechSynthesis >>

\* the state after a handler of the reader
Commit(r, op) ==
    /\ CommitReader(r, op)
    /\ UNCHANGED otherVars

\* a handler starts with no error pending
Fresh == [State EXCEPT !.raised = FALSE]

\* values of Math.floor(Math.random() * paragraphs.length)
RandomIndices ==
    IF Len(paragraphs) = 0 THEN {0} ELSE 0 .. (Len(paragraphs) - 1)

\* play() has no guard.  The model follows every play() that ends in a
\* state r within its bounds: at most MaxCalls speak calls made, the cursor
\* at most MaxOverrun past the last paragraph
CanPlay(r) ==
    /\ r.idx <= Len(paragraphs) + MaxOverrun
    /\ Len(r.calls) <= MaxCalls

\* ------------------------------------------------------------------------
\* Handlers
\* ------------------------------------------------------------------------
\* click on tts-play-btn
PlayClick ==
    /\ controls
    /\ \E rnd \in RandomIndices :
          LET r == play(Fresh, rnd)
          IN  CanPlay(r) /\ Commit(r, "play")

\* click on tts-random-btn
RandomClick ==
    /\ controls
    /\ \E r \in { [Fresh EXCEPT !.rand = ~@] } : Commit(r, "random")

\* click on tts-stop-btn
StopClick ==
    /\ controls
    /\ \E r \in { stopAll(Fresh) } : Commit(r, "stop")

\* the onchange handler of tts-delay-input, val the parsed number
setDelay(s, val) ==
    IF val > 0 THEN [s EXCEPT !.delay = val] ELSE s

\* change of tts-delay-input
DelayChange ==
    /\ controls
    /\ DelayInputs # {}
    /\ \E val \in DelayInputs : Commit(setDelay(Fresh, val), "delay")

\* a timer set by the completion callback fires: () => this.play()
TimerFire ==
    /\ timers > 0
    /\ \E rnd \in RandomIndices :
          LET r == play([Fresh EXCEPT !.timers = @ - 1], rnd)
          IN  CanPlay(r) /\ Commit(r, "timer")

\* the utterance being spoken ends: u.onend
UtteranceEnd ==
    /\ utteranceQueue # << >>
    /\ LET u == Head(utteranceQueue)
       IN  Commit(onend([Fresh EXCEPT !.queue = Tail(@)], u), "end")

\* the utterance being spoken fails: u.onerror
UtteranceError ==
    /\ utteranceQueue # << >>
    /\ LET u == Head(utteranceQueue)
       IN  Commit(onerror([Fresh EXCEPT !.queue = Tail(@)], u), "error")

\* the engine reports a cancelled utterance with an error event: u.onerror
CancelledError ==
    \E u \in cancelled :
        Commit(onerror([Fresh EXCEPT !.cancelled = @ \ {u}], u), "cancelError")

\* the engine discards a cancelled utterance without an event
CancelledDrop ==
    \E u \in cancelled :
        Commit([Fresh EXCEPT !.cancelled = @ \ {u}], "cancelDrop")

\* index of the first paragraph following a heading that has pos paragraphs
\* before it; -1 when none follows (findIndex)
FirstParagraphAfter(pos) ==
    IF pos < Len(paragraphs) THEN pos ELSE -1

\* scrollToHeading without the test idx !== -1
scrollToHeadingUnchecked(s, pos) ==
    [s EXCEPT !.idx = FirstParagraphAfter(pos)]

\* a scrollToHeading that also takes the highlights off the paragraphs
scrollToHeadingClear(s, pos) ==
    LET idx == FirstParagraphAfter(pos)
    IN  IF idx # -1 THEN [s EXCEPT !.idx = idx, !.hl = {}] ELSE s

\* scrollToHeading, the part that moves the reader's cursor
scrollToHeading(s, pos) ==
    LET idx == FirstParagraphAfter(pos)
    IN  IF idx # -1 THEN [s EXCEPT !.idx = idx] ELSE s

\* click on the link of an entry: scrollToHeading(h), on the panel, the
\* page and the reader; pos is the number of paragraphs before the heading
TocEntryClick ==
    \E k \in DOMAIN tocInstance.headings :
        LET r == scrollToHeadingPanel(tocInstance, elements, k)
            pos == elements[tocInstance.headings[k].el].pos
        IN  /\ tocInstance' = r.toc
            /\ elements' = r.elements
            /\ domLog' = r.log
            /\ CommitReader(scrollToHeading(Fresh, pos), "toc")
            /\ UNCHANGED << hovered, darkVars, fnVars >>

\* window.ttsInstance.destroy(), with or without the controls in the page
ReaderDestroy ==
    \E r \in { destroy(Fresh) } : Commit(r, "stop")

Next ==
    \/ PlayClick
    \/ RandomClick
    \/ StopClick
    \/ DelayChange
    \/ ReaderDestroy
    \/ TimerFire
    \/ UtteranceEnd
    \/ UtteranceError
    \/ CancelledError
    \/ CancelledDrop
    \/ TocEntryClick

Spec == Init /\ [][Next]_vars

TypeOK ==
    /\ currentParagraphIdx \in 0 .. (Len(paragraphs) + MaxOverrun)
    /\ highlighted \subseteq 0 .. (Len(paragraphs) - 1)
    /\ Len(calls) <= MaxCalls
    /\ timers \in 0 .. MaxCalls
\* ------------------------------------------------------------------------
\* Notions shared by the properties
\* ------------------------------------------------------------------------
\* paragraphs that have an utterance in the engine's queue
InFlight == { calls[utteranceQueue[k].call].para : k \in 1 .. Len(utteranceQueue) }

\* speech is active: a highlighted paragraph has an utterance outstanding
SpeechActive == highlighted \cap InFlight # {}

\* ------------------------------------------------------------------------
\* C1: a stop during the delay window suppresses the next advance: when a
\* timer fires after stopAll has switched continuous mode off, no paragraph
\* is highlighted and no utterance is submitted to the engine.
\* ------------------------------------------------------------------------
C1_StopSuppressesAdvance ==
    [][ (TimerFire /\ ~isContinuous)
          => (highlighted' = highlighted /\ utteranceQueue' = utteranceQueue) ]_vars

\* ------------------------------------------------------------------------
\* One play with nobody interfering: continuous mode on, random mode off,
\* cursor at 0, an engine present, at least one paragraph; after the first
\* click only the engine and the timers act.
\* ------------------------------------------------------------------------
InitSeq ==
    /\ InitWith(UNION { [1 .. n -> SampleTexts] : n \in 1 .. MaxParagraphs })
    /\ hasSpeechSynthesis
    /\ OthersIdle

\* the single click on play
FirstPlay ==
    /\ calls = << >>
    /\ PlayClick

NextSeq ==
    \/ FirstPlay
    \/ UtteranceEnd
    \/ UtteranceError
    \/ TimerFire

SpecSeq == InitSeq /\ [][NextSeq]_vars

\* ------------------------------------------------------------------------
\* C2: a single play in continuous sequential mode speaks paragraphs
\* 0, 1, ..., n-1 in that order, each once; a next play is scheduled only
\* when the engine has nothing left of the previous paragraph; and once the
\* cursor has reached n nothing more is spoken, highlighted or scheduled.
\* ------------------------------------------------------------------------
C2_SequentialRun ==
    [][ /\ \A i \in 1 .. Len(calls') : calls'[i].para = i - 1
        /\ (timers' > timers => utteranceQueue' = << >>)
        /\ (currentParagraphIdx >= Len(paragraphs)
              => /\ Len(calls') = Len(calls)
                 /\ highlighted' \subseteq highlighted
                 /\ timers' <= timers) ]_vars

\* ------------------------------------------------------------------------
\* C3 as stated: whenever speech is active the cursor is a valid paragraph
\* index, 0 <= currentIndex < paragraphs.length.
\* ------------------------------------------------------------------------
C3_CursorInRange ==
    SpeechActive => InRange(currentParagraphIdx)

\* C3 amended: whenever speech is active, the paragraphs being spoken have
\* valid indices and the cursor is not negative; the cursor is the index of
\* the next play and may be paragraphs.length or more.
C3_SpokenInRange ==
    SpeechActive =>
        /\ \A i \in highlighted \cap InFlight : InRange(i)
        /\ currentParagraphIdx >= 0

\* the last paragraph is being spoken and the cursor is past the end
C3_Witness ==
    /\ SpeechActive
    /\ Len(paragraphs) - 1 \in highlighted \cap InFlight
    /\ currentParagraphIdx = Len(paragraphs)

\* ------------------------------------------------------------------------
\* C4: with a speech engine present, immediately after stopAll returns no
\* paragraph carries the highlight, whatever was going on when stop was
\* invoked.
\* ------------------------------------------------------------------------
C4_StopClearsHighlight ==
    (stopRun > 0 /\ hasSpeechSynthesis /\ ~raised) => highlighted = {}

\* ------------------------------------------------------------------------
\* C5: with a speech engine present, under any interleaving at most one
\* paragraph is highlighted and at most one paragraph has utterances in
\* flight.
\* ------------------------------------------------------------------------
C5_NoDoubleSpeech ==
    hasSpeechSynthesis =>
        /\ Cardinality(highlighted) <= 1
        /\ Cardinality(InFlight) <= 1

\* ------------------------------------------------------------------------
\* C6: in a document with paragraphs and a speech engine, stopAll completes
\* without raising an error in every reachable state, having cancelled the
\* speech engine.
\* ------------------------------------------------------------------------
C6_StopNeverRaises ==
    (stopRun > 0 /\ hasSpeechSynthesis /\ Len(paragraphs) >= 1)
        => (~raised /\ utteranceQueue = << >>)

\* ------------------------------------------------------------------------
\* C7: stopAll is idempotent: from any reachable state a second stopAll
\* leaves the controller (flags, cursor, delay, highlights, engine queue,
\* timers, error raised) exactly as the first one left it, and in that
\* state the engine speaks nothing.
\* ------------------------------------------------------------------------
C7_StopIdempotent ==
    LET once  == stopAll(Fresh)
        twice == stopAll([once EXCEPT !.raised = FALSE])
    IN  /\ twice = once
        /\ once.queue = << >>

\* stopAll has run twice in a row after it cancelled an utterance
C7_Witness ==
    /\ stopRun = 2
    /\ cancelled # {}
    /\ ~isContinuous

\* ------------------------------------------------------------------------
\* The utterances of a speak() call still with the engine: queued, or
\* cancelled with their event not yet delivered
\* ------------------------------------------------------------------------
Outstanding(id) ==
    { u \in { utteranceQueue[k] : k \in 1 .. Len(utteranceQueue) } \cup cancelled :
        u.call = id }

NumChunks(id) == Len(Chunks(paragraphs[calls[id].para + 1]))

\* ------------------------------------------------------------------------
\* C8: within one speak call the chunks are submitted in increasing index
\* order, and a chunk is submitted only after the callback of the previous
\* one: at most one utterance of the call is outstanding, and it is the
\* chunk submitted last.
\* ------------------------------------------------------------------------
C8_ChunksOneAtATime ==
    \A id \in 1 .. Len(calls) :
        /\ Cardinality(Outstanding(id)) <= 1
        /\ \A u \in Outstanding(id) : u.chunk = calls[id].index - 1
        /\ calls[id].submitted = [j \in 1 .. calls[id].index |-> j - 1]

\* the second chunk of a paragraph is with the engine
C8_Witness ==
    \E id \in 1 .. Len(calls) :
        /\ calls[id].index = 2
        /\ Outstanding(id) = { [call |-> id, chunk |-> 1] }
        /\ utteranceQueue # << >>

\* ------------------------------------------------------------------------
\* C9: whatever the outcomes (end or error) of the chunks, every chunk is
\* submitted once, the completion callback runs once, exactly when the
\* outcome of the last chunk has been delivered, and the handler that runs
\* it leaves the paragraph without highlight.
\* ------------------------------------------------------------------------
C9_ErrorsDoNotAbort ==
    /\ \A id \in 1 .. Len(calls) :
          /\ calls[id].ended = (IF calls[id].delivered = NumChunks(id) THEN 1 ELSE 0)
          /\ calls[id].ended = 1
                => calls[id].submitted = [j \in 1 .. NumChunks(id) |-> j - 1]
    /\ justEnded # 0 => calls[justEnded].para \notin highlighted

\* the failure of its last chunk has just completed a paragraph of two
\* chunks, and the paragraph is without highlight
C9_Witness ==
    /\ lastFailed
    /\ justEnded # 0
    /\ NumChunks(justEnded) = 2
    /\ calls[justEnded].ended = 1
    /\ calls[justEnded].para \notin highlighted

\* ------------------------------------------------------------------------
\* C10: without a speech engine, play in a document with paragraphs is a
\* no-op that raises nothing: highlights, cursor and timers are as before.
\* ------------------------------------------------------------------------
C10_PlayWithoutEngine ==
    [][ (PlayClick /\ ~hasSpeechSynthesis /\ Len(paragraphs) >= 1)
          => /\ highlighted' = highlighted
             /\ currentParagraphIdx' = currentParagraphIdx
             /\ timers' = timers
             /\ ~raised' ]_vars

\* ------------------------------------------------------------------------
\* C11: in a document without a non-empty paragraph the speech controller
\* creates no play, random or stop control: none of its handlers ever runs,
\* so the controller stays as constructed and no error is raised.
\* ------------------------------------------------------------------------
C11_EmptyDocumentIdle ==
    Len(paragraphs) = 0 =>
        /\ ~raised
        /\ currentParagraphIdx = 0
        /\ isContinuous
        /\ ~isRandom

\* ------------------------------------------------------------------------
\* C12 as stated: the paragraph a play call highlights and speaks is the
\* one whose index that same call selected (at random in random mode, as
\* the next one in sequential mode), that is the new value of the cursor.
\* ------------------------------------------------------------------------
C12_SpeaksSelected ==
    [][ Len(calls') > Len(calls)
          => calls'[Len(calls')].para = currentParagraphIdx' ]_vars

\* C12 amended: in both modes a play call highlights and speaks the
\* paragraph the cursor pointed at when the call began; the index the call
\* selects (random, or cursor + 1) only becomes the new cursor.
C12_SpeaksCursor ==
    [][ Len(calls') > Len(calls)
          => /\ calls'[Len(calls')].para = currentParagraphIdx
             /\ currentParagraphIdx \in highlighted'
             /\ IF isRandom THEN currentParagraphIdx' \in RandomIndices
                             ELSE currentParagraphIdx' = currentParagraphIdx + 1 ]_vars

\* in random mode a paragraph is highlighted and spoken while the index
\* just selected, the cursor, is another one
C12_Witness ==
    /\ isRandom
    /\ calls # << >>
    /\ utteranceQueue # << >>
    /\ calls[Len(calls)].para \in highlighted \cap InFlight
    /\ calls[Len(calls)].para # currentParagraphIdx
    /\ stopRun = 0

\* ------------------------------------------------------------------------
\* C13 as stated: in random mode every play sets the index it selects to a
\* value in [0, paragraphs.length), every index of that range can be
\* selected by the play, and a step that changes the random flag (a click
\* on the random button) changes neither the continuous flag nor the
\* cursor nor any highlight.
\* ------------------------------------------------------------------------
C13_RandomSelection ==
    /\ [] ( isRandom
              => { play(Fresh, rnd).idx : rnd \in RandomIndices }
                    = 0 .. (Len(paragraphs) - 1) )
    /\ [][ /\ (isRandom /\ (PlayClick \/ TimerFire))
                => InRange(currentParagraphIdx')
           /\ isRandom' # isRandom
                => UNCHANGED << isContinuous, currentParagraphIdx, highlighted >> ]_vars

\* ------------------------------------------------------------------------
\* SpecToc: the table of contents over a page with headings, the observer
\* notifications, the clicks on entries, the pointer over the links, the
\* user opening and closing collapsible containers, and destroy().  The
\* reader stays as constructed, apart from the cursor that a click moves.
\* ------------------------------------------------------------------------
\* d collapsible containers around an element, a DIV between two of them
RECURSIVE Nested(_)
Nested(d) ==
    IF d = 0 THEN << >>
    ELSE << [tag |-> "DETAILS", open |-> FALSE] >>
         \o (IF d > 1 THEN << [tag |-> "DIV", open |-> FALSE] >> ELSE << >>)
         \o Nested(d - 1)

\* a page of m elements, in threes: a heading outside any container, a
\* summary three containers deep, a heading one container deep; the i-th
\* has i - 1 paragraphs before it, the first has an id of its own
SamplePage(m) ==
    [i \in 1 .. m |->
        [tag |-> IF i % 3 = 2 THEN "SUMMARY" ELSE "H2",
         id |-> IF i = 1 THEN << "intro", 0 >> ELSE NoId,
         ancestors |-> Nested(CASE i % 3 = 1 -> 0 [] i % 3 = 2 -> 3 [] OTHER -> 1),
         pos |-> i - 1]]

\* the variables that the table of contents leaves alone, the cursor of
\* the reader apart
readerRest ==
    << paragraphs, hasSpeechSynthesis, delay, isContinuous, isRandom,
       highlighted, calls, utteranceQueue, cancelled, timers, raised,
       lastFailed, justEnded, stopRun, controls, darkVars, fnVars >>

InitSpecToc ==
    /\ InitWith({ SampleDocument(2) })
    /\ hasSpeechSynthesis
    /\ InitToc({ SamplePage(m) : m \in 0 .. MaxHeadings })
    /\ InitDark({ NoStore })
    /\ FnIdle

\* what one notification reports of an observed element: nothing, or an
\* entry with isIntersecting and intersectionRatio
Reports ==
    [reported : { FALSE }, isIntersecting : { FALSE }, intersectionRatio : { 0 }]
    \cup [reported : { TRUE }, isIntersecting : BOOLEAN, intersectionRatio : { 0, 1 }]

\* the entries of a notification, in the order in which the elements were
\* observed: the order of this.headings
EntriesOf(reports) ==
    LET ks == InOrder({ k \in DOMAIN reports : reports[k].reported })
    IN  [n \in DOMAIN ks |->
            [target |-> tocInstance.headings[ks[n]].el,
             isIntersecting |-> reports[ks[n]].isIntersecting,
             intersectionRatio |-> reports[ks[n]].intersectionRatio]]

\* the IntersectionObserver calls back with a list of entries
ObserverNotify ==
    /\ \E reports \in [DOMAIN tocInstance.headings -> Reports] :
          /\ EntriesOf(reports) # << >>
          /\ tocInstance' = observe(tocInstance, elements, EntriesOf(reports), 1)
    /\ domLog' = << >>
    /\ UNCHANGED << elements, hovered, currentParagraphIdx, readerRest >>

\* the mouseover and mouseout handlers of a link
setBackground(t, k, colour) ==
    [t EXCEPT !.headings[k].link.background = colour]

LinkMouseOver ==
    /\ \E k \in DOMAIN tocInstance.headings :
          tocInstance' = setBackground(tocInstance, k, "hover")
    /\ hovered' = TRUE
    /\ domLog' = << >>
    /\ UNCHANGED << elements, currentParagraphIdx, readerRest >>

LinkMouseOut ==
    /\ \E k \in DOMAIN tocInstance.headings :
          tocInstance' = setBackground(tocInstance, k, "transparent")
    /\ hovered' = TRUE
    /\ domLog' = << >>
    /\ UNCHANGED << elements, currentParagraphIdx, readerRest >>

\* the user opens or closes a collapsible container of the page
DetailsToggle ==
    /\ \E i \in DOMAIN elements : \E j \in DOMAIN elements[i].ancestors :
          /\ elements[i].ancestors[j].tag = "DETAILS"
          /\ elements' = [elements EXCEPT ![i].ancestors[j].open = ~@]
    /\ domLog' = << >>
    /\ UNCHANGED << tocInstance, hovered, currentParagraphIdx, readerRest >>

\* tocInstance.destroy()
TocDestroy ==
    /\ tocInstance' = destroyToc(tocInstance)
    /\ domLog' = << >>
    /\ UNCHANGED << elements, hovered, currentParagraphIdx, readerRest >>

NextToc ==
    \/ ObserverNotify
    \/ TocEntryClick
    \/ LinkMouseOver
    \/ LinkMouseOut
    \/ DetailsToggle
    \/ TocDestroy

SpecToc == InitSpecToc /\ [][NextToc]_vars

\* the link of the k-th entry is emphasised: bold weight and tint
Emphasised(k) ==
    /\ tocInstance.headings[k].link.fontWeight = "700"
    /\ tocInstance.headings[k].link.background = "tint"

\* the link of the k-th entry is as render() or setActive reset it
Default(k) ==
    /\ tocInstance.headings[k].link.fontWeight = "400"
    /\ tocInstance.headings[k].link.background \in { "", "transparent" }

\* ------------------------------------------------------------------------
\* C14: as long as only observer notifications and clicks on entries have
\* happened, at most one link is emphasised, a link is emphasised exactly
\* when the id of its heading is activeId, and every other link is at its
\* default; in the initial state activeId is null and no link is emphasised.
\* ------------------------------------------------------------------------
C14_OneActiveLink ==
    /\ tocInstance.activeId = Null
    /\ \A k \in DOMAIN tocInstance.headings : ~Emphasised(k)
    /\ [] ( ~hovered =>
              /\ Cardinality({ k \in DOMAIN tocInstance.headings :
                                 Emphasised(k) }) <= 1
              /\ \A k \in DOMAIN tocInstance.headings :
                    /\ Emphasised(k) <=> tocInstance.headings[k].id = tocInstance.activeId
                    /\ Emphasised(k) \/ Default(k) )

\* an entry is active and emphasised after another one was: the other
\* link has been reset
C14_Witness ==
    /\ ~hovered
    /\ \E j, k \in DOMAIN tocInstance.headings :
          /\ j # k
          /\ tocInstance.headings[j].id = tocInstance.activeId
          /\ Emphasised(j)
          /\ tocInstance.headings[k].link.background = "transparent"
\* ------------------------------------------------------------------------
\* SpecCollect: new TableOfContents() over pages of heading-like elements
\* with and without ids, with shared ids and with ids of the form
\* toc-auto-N, and again over the page as the first construction left it.
\* ------------------------------------------------------------------------
\* ids that the elements of a page carry
PageIds == { NoId, << "intro", 0 >>, AutoId(1), AutoId(2) }

\* a heading, or a summary directly inside a collapsible container
PageElements ==
    [tag : { "H2" }, id : PageIds, ancestors : { << >> }, pos : { 0 }]
    \cup [tag : { "SUMMARY" }, id : PageIds, ancestors : { Nested(1) }, pos : { 0 }]

InitCollect ==
    /\ InitWith({ SampleDocument(0) })
    /\ hasSpeechSynthesis
    /\ elements \in UNION { [1 .. m -> PageElements] : m \in 0 .. MaxHeadings }
    /\ tocInstance = NewToc
    /\ domLog = << >>
    /\ hovered = FALSE
    /\ InitDark({ NoStore })
    /\ FnIdle

\* the script constructs a table of contents over the page
Construct ==
    /\ elements' = init(elements).elements
    /\ tocInstance' = init(elements).toc
    /\ UNCHANGED << domLog, hovered, currentParagraphIdx, readerRest >>

NextCollect == Construct

SpecCollect == InitCollect /\ [][NextCollect]_vars

\* the elements in the order in which collectHeadings goes through them
all == standard(elements) \o custom(elements)

\* a construction has gone over the page: no element is without id
Collected == \A i \in DOMAIN elements : elements[i].id # NoId

\* ------------------------------------------------------------------------
\* C15: the ids of the collected entries are pairwise distinct; of the
\* elements with the same id the one that collectHeadings meets first is
\* retained and no other; a construction over a page that a construction
\* has gone over changes no id and collects the same entries.
\* ------------------------------------------------------------------------
C15_UniqueStableIds ==
    /\ [] ( \A j, k \in DOMAIN tocInstance.headings :
               j # k => tocInstance.headings[j].id # tocInstance.headings[k].id )
    /\ [] ( (Collected /\ tocInstance # NewToc) =>
               \A k \in DOMAIN all :
                  (\E h \in DOMAIN tocInstance.headings :
                        tocInstance.headings[h].el = all[k])
                  <=> (\A j \in 1 .. (k - 1) :
                        elements[all[j]].id # elements[all[k]].id) )
    /\ [][ (Collected /\ tocInstance # NewToc) =>
               /\ elements' = elements
               /\ tocInstance'.headings = tocInstance.headings ]_vars

\* a page gone over, in which an element got the id toc-auto-1 that
\* another element carried already, and one of the two is not an entry
C15_Witness ==
    /\ tocInstance.idCounter >= 1
    /\ \E i, j \in DOMAIN elements :
          /\ i # j
          /\ elements[i].id = AutoId(1)
          /\ elements[j].id = AutoId(1)
          /\ \E h \in DOMAIN tocInstance.headings : tocInstance.headings[h].el = i
          /\ \A h \in DOMAIN tocInstance.headings : tocInstance.headings[h].el # j
\* ------------------------------------------------------------------------
\* C16: after a click on an entry, whatever number of collapsible
\* containers its heading is nested in and whichever of them were closed,
\* the handler has made its calls in the order openDetailsChain,
\* scrollIntoView, setActive, animate, no container above the heading was
\* closed when scrollIntoView was called, and none is closed afterwards.
\* ------------------------------------------------------------------------
C16_OpenBeforeScroll ==
    domLog # << >> =>
        /\ [n \in DOMAIN domLog |-> domLog[n].step]
              = << "openDetailsChain", "scrollIntoView", "setActive", "animate" >>
        /\ domLog[2].closed = 0
        /\ \A k \in DOMAIN tocInstance.headings :
              tocInstance.headings[k].id = tocInstance.activeId
                 => closedDetails(elements[tocInstance.headings[k].el].ancestors) = 0

\* the entry clicked last is nested three containers deep, with another
\* element between two of them; all three were closed when the handler
\* began and all three are open
C16_Witness ==
    /\ domLog # << >>
    /\ domLog[1].closed = 3
    /\ \E k \in DOMAIN tocInstance.headings :
          LET ancestors == elements[tocInstance.headings[k].el].ancestors
          IN  /\ tocInstance.headings[k].id = tocInstance.activeId
              /\ Cardinality({ j \in DOMAIN ancestors :
                                 ancestors[j].tag = "DETAILS" /\ ancestors[j].open }) = 3
              /\ \E j \in DOMAIN ancestors : ancestors[j].tag # "DETAILS"
\* ------------------------------------------------------------------------
\* SpecDark: dark mode over a preference store that holds nothing, "0",
\* "1" or a foreign value, and whose getItem and setItem throw or not;
\* clicks on the button, page loads, the page writing the item, the store
\* starting and ceasing to throw, destroy().
\* ------------------------------------------------------------------------
\* values of the item ext_dark_mode
StoredValues == { NoItem, "0", "1", "true", "" }

Stores ==
    [ext_dark_mode : StoredValues, getItemThrows : BOOLEAN, setItemThrows : BOOLEAN]

\* the variables that dark mode leaves alone
darkRest ==
    << paragraphs, hasSpeechSynthesis, currentParagraphIdx, delay,
       isContinuous, isRandom, highlighted, calls, utteranceQueue,
       cancelled, timers, lastFailed, justEnded, stopRun, controls, tocVars,
       fnVars >>

InitSpecDark ==
    /\ InitWith({ SampleDocument(0) })
    /\ hasSpeechSynthesis
    /\ InitToc({ << >> })
    /\ InitDark(Stores)
    /\ FnIdle

\* the state after a handler of dark mode that ended in d
CommitDark(d) ==
    /\ darkModeInstance' = [isDark |-> d.isDark, styleEl |-> d.styleEl]
    /\ darkPage' = [styleInHead |-> d.styleInHead, buttonText |-> d.buttonText]
    /\ localStorage' = [localStorage EXCEPT !.ext_dark_mode = d.ext_dark_mode]
    /\ raised' = d.raised
    /\ UNCHANGED darkRest

\* click on dark-mode-btn: () => this.toggle()
DarkClick ==
    /\ darkPage.buttonText # NoButton
    /\ \E d \in { toggle(DarkState) } : CommitDark(d)
    /\ toggled' = IF Len(toggled) < 2
                  THEN Append(toggled, Appearance(DarkState))
                  ELSE << toggled[2], Appearance(DarkState) >>

\* the page is loaded again and the script constructs dark mode anew
PageLoad ==
    /\ \E d \in { newDarkMode(localStorage) } : CommitDark(d)
    /\ toggled' = << >>

\* the page, or another tab of the site, writes or removes the item
PageWritesItem ==
    /\ \E value \in StoredValues :
          localStorage' = [localStorage EXCEPT !.ext_dark_mode = value]
    /\ UNCHANGED << darkModeInstance, darkPage, toggled, raised, darkRest >>

\* getItem or setItem starts or ceases to throw
StoreFlips ==
    /\ \/ localStorage' = [localStorage EXCEPT !.getItemThrows = ~@]
       \/ localStorage' = [localStorage EXCEPT !.setItemThrows = ~@]
    /\ UNCHANGED << darkModeInstance, darkPage, toggled, raised, darkRest >>

\* darkModeInstance.destroy()
DarkDestroy ==
    /\ \E d \in { destroyDark(DarkState) } : CommitDark(d)
    /\ toggled' = << >>

NextDark ==
    \/ DarkClick
    \/ PageLoad
    \/ PageWritesItem
    \/ StoreFlips
    \/ DarkDestroy

SpecDark == InitSpecDark /\ [][NextDark]_vars

\* ------------------------------------------------------------------------
\* C17: after two toggles in a row, isDark, the presence of the injected
\* style in the document and the text of the button are what they were
\* before the two toggles, from every state that page loads (with nothing,
\* "0" or "1" stored) and toggles lead to.
\* ------------------------------------------------------------------------
C17_ToggleTwiceRestores ==
    Len(toggled) = 2 => Appearance(DarkState) = toggled[1]

\* two toggles in a row that began in dark mode, loaded from a stored "1"
C17_Witness ==
    /\ Len(toggled) = 2
    /\ toggled[1] = << TRUE, TRUE, "Light" >>
    /\ toggled[2] = << FALSE, FALSE, "Dark" >>
    /\ darkModeInstance.isDark

\* ------------------------------------------------------------------------
\* C18: no handler of dark mode ends with an exception; when reading the
\* store throws at a page load dark mode is off afterwards; a toggle flips
\* isDark and puts the style in the document or takes it out whether the
\* write throws or not, and when it does not throw the item is "1"
\* afterwards if isDark is true and "0" if not.
\* ------------------------------------------------------------------------
C18_StoreFailuresIgnored ==
    /\ (localStorage.getItemThrows => ~darkModeInstance.isDark)
    /\ [] ~raised
    /\ [][ /\ (PageLoad /\ localStorage.getItemThrows)
                => (~darkModeInstance'.isDark /\ ~darkPage'.styleInHead)
           /\ DarkClick
                => /\ darkModeInstance'.isDark = ~darkModeInstance.isDark
                   /\ darkPage'.styleInHead = darkModeInstance'.isDark
                   /\ ~localStorage.setItemThrows
                        => (localStorage'.ext_dark_mode = "1"
                              <=> darkModeInstance'.isDark)
                   /\ localStorage.setItemThrows
                        => localStorage'.ext_dark_mode = localStorage.ext_dark_mode
         ]_vars

\* dark mode was turned on by a toggle whose write threw: the item still
\* says "0"
C18_Witness ==
    /\ localStorage.setItemThrows
    /\ localStorage.ext_dark_mode = "0"
    /\ darkModeInstance.isDark
    /\ darkPage.styleInHead
    /\ toggled # << >>
\* ------------------------------------------------------------------------
\* SpecChunks: the chunking of speak() applied to every text of up to
\* MaxTextLen characters, terminal punctuation and others.
\* ------------------------------------------------------------------------
Alphabet == { "a", "b", ".", "!", "?" }

Texts == UNION { [1 .. n -> Alphabet] : n \in 1 .. MaxTextLen }

InitChunks ==
    /\ InitWith({ SampleDocument(0) })
    /\ hasSpeechSynthesis
    /\ InitToc({ << >> })
    /\ InitDark({ NoStore })
    /\ speakText \in Texts
    /\ chunks = << >>
    /\ calcArgs = [minFont |-> 14, maxFont |-> 32, level |-> 1,
                   fontSizePx |-> << 0, 0 >>]
    /\ indent = << >>

\* speak(text, ...) makes its chunks
SpeakChunks ==
    /\ chunks = << >>
    /\ chunks' = Chunks(speakText)
    /\ UNCHANGED << speakText, calcArgs, indent, tocVars, currentParagraphIdx,
                    paragraphs, hasSpeechSynthesis, delay, isContinuous,
                    isRandom, highlighted, calls, utteranceQueue, cancelled,
                    timers, raised, lastFailed, justEnded, stopRun, controls,
                    darkVars >>

NextChunks == SpeakChunks

SpecChunks == InitChunks /\ [][NextChunks]_vars

RECURSIVE Concat(_)
\* the chunks one after the other
Concat(cs) ==
    IF cs = << >> THEN << >> ELSE Head(cs) \o Concat(Tail(cs))

\* ------------------------------------------------------------------------
\* C19: the chunks that speak makes of a text, one after the other, are
\* the text, also when the text begins with terminal punctuation or
\* consists of nothing else.
\* ------------------------------------------------------------------------
C19_ChunkRoundTrip ==
    chunks # << >> => Concat(chunks) = speakText

\* ------------------------------------------------------------------------
\* SpecIndent: calcIndent applied to two font sizes f1 <= f2 at one level,
\* for every minFont <= maxFont; sizes are whole numbers of px, 0 for an
\* unresolvable one, and go one past MaxFont.  To these come font sizes
\* between 16px and 64px whose exact indent lies halfway between two whole
\* numbers, where the doubles of the code decide.
\* ------------------------------------------------------------------------
HalfwayArgs ==
    { c \in [minFont : { 16 }, maxFont : { 64 }, level : 1 .. 6,
             fontSizePx : { 32, 33, 34, 39, 40 } \X { 32, 33, 34, 39, 40 }] :
        c.fontSizePx[1] <= c.fontSizePx[2] }

InitIndent ==
    /\ InitWith({ SampleDocument(0) })
    /\ hasSpeechSynthesis
    /\ InitToc({ << >> })
    /\ InitDark({ NoStore })
    /\ speakText = << >>
    /\ chunks = << >>
    /\ calcArgs \in { c \in [minFont : 1 .. MaxFont, maxFont : 1 .. MaxFont,
                            level : 1 .. 6,
                            fontSizePx : (0 .. (MaxFont + 1)) \X (0 .. (MaxFont + 1))] :
                        /\ c.minFont <= c.maxFont
                        /\ c.fontSizePx[1] <= c.fontSizePx[2] }
                    \cup HalfwayArgs
    /\ indent = << >>

\* render() computes the indent of two entries
CalcIndents ==
    /\ indent = << >>
    /\ indent' = << calcIndent(calcArgs, calcArgs.fontSizePx[1], calcArgs.level),
                    calcIndent(calcArgs, calcArgs.fontSizePx[2], calcArgs.level) >>
    /\ UNCHANGED << speakText, chunks, calcArgs, tocVars, currentParagraphIdx,
                    paragraphs, hasSpeechSynthesis, delay, isContinuous,
                    isRandom, highlighted, calls, utteranceQueue, cancelled,
                    timers, raised, lastFailed, justEnded, stopRun, controls,
                    darkVars >>

NextIndent == CalcIndents

SpecIndent == InitIndent /\ [][NextIndent]_vars

\* ------------------------------------------------------------------------
\* C20: at a fixed level, with minFont < maxFont, the indent of the larger
\* of two font sizes is at most the indent of the smaller; with minFont
\* equal to maxFont the indent is (level - 1) * 12 for every font size.
\* ------------------------------------------------------------------------
C20_IndentMonotone ==
    indent # << >> =>
        /\ calcArgs.minFont < calcArgs.maxFont => indent[2] <= indent[1]
        /\ calcArgs.minFont = calcArgs.maxFont
              => /\ indent[1] = (calcArgs.level - 1) * 12
                 /\ indent[2] = (calcArgs.level - 1) * 12

\* two sizes of which the larger is indented less, the smaller one by an
\* amount that Math.round had to round, the larger one above maxFont
C20_Witness ==
    /\ indent # << >>
    /\ calcArgs.minFont < calcArgs.maxFont
    /\ calcArgs.fontSizePx[2] > calcArgs.maxFont
    /\ indent[2] < indent[1]
    /\ ((calcArgs.maxFont - calcArgs.fontSizePx[1]) * 24)
          % (calcArgs.maxFont - calcArgs.minFont) # 0
\* ------------------------------------------------------------------------
\* C21: the collected entries are in document order: of two entries, the
\* one whose element comes first in the document comes first in
\* this.headings, also when summaries and headings are interleaved.
\* ------------------------------------------------------------------------
C21_DocumentOrder ==
    \A j, k \in DOMAIN tocInstance.headings :
        j < k => tocInstance.headings[j].el < tocInstance.headings[k].el

\* ------------------------------------------------------------------------
\* C22: the completion callback of a play call removes the highlight from
\* the paragraph that this play call highlighted and from no other
\* paragraph, wherever the cursor has moved in between.
\* ------------------------------------------------------------------------
C22_CallbackClearsOwnHighlight ==
    [][ justEnded' # 0
          => highlighted' = highlighted \ { calls[justEnded'].para } ]_vars

\* a callback has run after the cursor had left the paragraph behind its
\* play call, and the highlight of another play call is still set
C22_Witness ==
    /\ justEnded # 0
    /\ currentParagraphIdx # calls[justEnded].para + 1
    /\ calls[justEnded].para \notin highlighted
    /\ highlighted # {}

\* ------------------------------------------------------------------------
\* C23: right after stopAll the continuous flag is false; once it is false
\* no step sets it again and no step schedules a delay timer, so a play
\* after a stop starts at most one speak call and is followed by no
\* automatic play.
\* ------------------------------------------------------------------------
C23_StopIsFinal ==
    /\ [] (stopRun > 0 => ~isContinuous)
    /\ [][ ~isContinuous
            => /\ ~isContinuous'
               /\ timers' <= timers
               /\ Len(calls') <= Len(calls) + 1 ]_vars

\* after a stop, a completion callback has run and no timer is pending
C23_Witness ==
    /\ ~isContinuous
    /\ justEnded # 0
    /\ stopRun = 0
    /\ timers = 0

\* ------------------------------------------------------------------------
\* C24: a click on an entry whose heading has pos paragraphs before it
\* moves the cursor to pos, the index of the first paragraph after the
\* heading, and leaves the cursor alone when no paragraph follows; nothing
\* else of the reader changes, the two flags and the highlights included;
\* and the next play speaks the paragraph at the cursor.  With an engine,
\* the steps that move the cursor, start no speak call and raise no error
\* are the clicks that move the cursor: a play either starts a call or
\* fails on a paragraph that does not exist.
\* ------------------------------------------------------------------------
C24_TocClickMovesCursor ==
    /\ [] ( \A pos \in 0 .. Len(paragraphs) :
               LET r == scrollToHeading(Fresh, pos)
               IN  /\ r.idx = IF pos < Len(paragraphs) THEN pos
                                                      ELSE currentParagraphIdx
                   /\ [r EXCEPT !.idx = currentParagraphIdx] = Fresh )
    /\ [] ( (hasSpeechSynthesis /\ InRange(currentParagraphIdx))
              => \A rnd \in RandomIndices :
                    LET r == play(Fresh, rnd)
                    IN  /\ Len(r.calls) = Len(calls) + 1
                        /\ r.calls[Len(r.calls)].para = currentParagraphIdx )
    /\ [][ ( /\ currentParagraphIdx' # currentParagraphIdx
              /\ hasSpeechSynthesis
              /\ Len(calls') = Len(calls)
              /\ ~raised' )
            => /\ InRange(currentParagraphIdx')
               /\ UNCHANGED << isContinuous, isRandom, highlighted >> ]_vars

\* the only play so far has spoken the second paragraph: a click had moved
\* the cursor from the first paragraph to the second, and the play that
\* followed spoke the paragraph of the click
C24_Witness ==
    /\ hasSpeechSynthesis
    /\ Len(calls) = 1
    /\ calls[1].para = 1
    /\ 1 \in highlighted
    /\ currentParagraphIdx = 2
    /\ ~isRandom

====
